---------------------------- MODULE Spec2Model ----------------------------
(***************************************************************************)
(* Fertile Life: the simulation kernel of src/simWorker.ts as a state      *)
(* machine.  One action per message type handled by self.onmessage; the    *)
(* state is the worker's module-level variables.                           *)
(*                                                                         *)
(* Numbers.  Fertility and the tunable parameters are JavaScript numbers.  *)
(* They are modelled as exact rationals <<n, d>> (d > 0, lowest terms);    *)
(* the rounding of IEEE-754 arithmetic and of Float32Array stores is not   *)
(* modelled, and the inputs are kept small enough that no Infinity or NaN  *)
(* arises.  Liveness, counts, dimensions and the generation are integers.  *)
(*                                                                         *)
(* Typed arrays are functions over 0..len-1.                                *)
(***************************************************************************)
EXTENDS Integers, FiniteSets, Sequences, TLC

\* ------------------------------------------------------------------ bounds
MaxCells == 2
MaxGen == 1
StepDim == 3
MaxLive == 2
StepGen == 1
WrapDim == 5
MaxShown == 2
MaxTuned == 2
MaxPosted == 7
SwapGen == 2
FallowGen == 3
LifeDim == 5
LifeGen == 4

\* ------------------------------------------------------- rational numbers
Abs(n) == IF n < 0 THEN -n ELSE n

RECURSIVE Gcd(_, _)
Gcd(a, b) == IF b = 0 THEN a ELSE Gcd(b, a % b)

Norm(n, d) == LET g == Gcd(Abs(n), d) IN <<n \div g, d \div g>>

Q(n, d) == Norm(n, d)
Zero == <<0, 1>>
One == <<1, 1>>

RAdd(a, b) ==
    IF a[2] = b[2] THEN Norm(a[1] + b[1], a[2])
    ELSE LET g == Gcd(a[2], b[2])
         IN  Norm(a[1] * (b[2] \div g) + b[1] * (a[2] \div g),
                  (a[2] \div g) * b[2])

RNeg(a) == <<-a[1], a[2]>>
RSub(a, b) == RAdd(a, RNeg(b))

RMul(a, b) ==
    LET g1 == Gcd(Abs(a[1]), b[2])
        g2 == Gcd(Abs(b[1]), a[2])
    IN  Norm((a[1] \div g1) * (b[1] \div g2), (a[2] \div g2) * (b[2] \div g1))

RLe(a, b) ==
    IF a[2] = b[2] THEN a[1] <= b[1]
    ELSE LET g == Gcd(a[2], b[2])
         IN  a[1] * (b[2] \div g) <= b[1] * (a[2] \div g)

RGe(a, b) == RLe(b, a)
RLt(a, b) == ~RLe(b, a)
RMax(a, b) == IF RLe(a, b) THEN b ELSE a
RMin(a, b) == IF RLe(a, b) THEN a ELSE b

\* ------------------------------------------------------------------ state
VARIABLES
    initialized,        \* let initialized = false
    W, H, N,            \* grid dimensions and cell count
    A,                  \* alive 0/1 (active buffer)
    F,                  \* fertility
    A2,                 \* next alive (double buffer)
    gen,                \* generation counter
    Fsum, Nsum,         \* reused neighbor buffers
    f0, tau, sigma, alpha, beta, kappa, d, delta, w0, w1,   \* tunables
    msg,                \* type of the message handled last ("none" before the first)
    post,               \* the frame that handler posted (NoFrame if none)
    thrown,             \* TRUE iff that handler ended in an uncaught RangeError
    A0,                 \* liveness at generation 0 (history, Life comparison)
    shown,              \* buffers of the render frames posted since the last
                        \* step, oldest first (history, kept by SpecRender only)
    inbox,              \* messages the host has posted, not yet handled
    posted,             \* number of messages the host has posted (history)
    form,               \* the host's params: the values of its parameter form
    edits,              \* cell -> value of the cell edits the host has posted
                        \* since it last posted a step or a reset (history)
    outbox,             \* frames the worker has posted, not yet delivered
    stepInFlight,       \* let stepInFlight = false
    playing,            \* const playing = ref(false)
    stepTimer,          \* let stepTimer: number | null = null
    intervals,          \* the interval timers that are active in the page
    generation,         \* const generation = ref(0)
    aliveCountValue,    \* const aliveCount = ref(0)
    lastFrame           \* let lastFrame: ImageData | null = null

grid == <<initialized, W, H, N, A, F, A2, gen, Fsum, Nsum>>
params == <<f0, tau, sigma, alpha, beta, kappa, d, delta, w0, w1>>
vars == <<initialized, W, H, N, A, F, A2, gen, Fsum, Nsum,
          f0, tau, sigma, alpha, beta, kappa, d, delta, w0, w1,
          msg, post, thrown, A0, shown,
          inbox, posted, form, edits, outbox, stepInFlight, playing, stepTimer,
          intervals, generation, aliveCountValue, lastFrame>>
host == <<inbox, posted, form, edits, outbox, stepInFlight, playing, stepTimer, intervals,
          generation, aliveCountValue, lastFrame>>

NoEdits == [i \in {} |-> 0]
NoMsg == "none"
NoFrame == [type |-> "none"]
NoTimer == 0
NoImage == [i \in {} |-> 0]
Empty == [i \in {} |-> 0]

\* new Uint8Array(n) / new Float32Array(n): n zeros
ZeroBytes(n) == [i \in 0 .. n - 1 |-> 0]
ZeroFloats(n) == [i \in 0 .. n - 1 |-> Zero]
\* a variant of fill that stops one entry short
FillButLast(a, v) ==
    [i \in DOMAIN a |-> IF i + 1 \in DOMAIN a THEN v ELSE a[i]]

\* TypedArray.prototype.fill
Fill(a, v) == [i \in DOMAIN a |-> v]

\* ------------------------------------------------------------ the kernel
\* The worker's grid variables as one value, and its tunables as another.
Grid == [W |-> W, H |-> H, N |-> N, A |-> A, F |-> F, A2 |-> A2, gen |-> gen,
         Fsum |-> Fsum, Nsum |-> Nsum]
\* a variant of Params that keeps the values the worker was loaded with
ParamsAtLoad ==
    [f0 |-> Q(7, 10), tau |-> Q(1, 2), sigma |-> Q(1, 10), alpha |-> Q(1, 1),
     beta |-> Q(2, 5), kappa |-> Q(3, 100), d |-> Q(3, 10), delta |-> Q(1, 125),
     w0 |-> Q(3, 5), w1 |-> Q(2, 5)]

Params == [f0 |-> f0, tau |-> tau, sigma |-> sigma, alpha |-> alpha,
           beta |-> beta, kappa |-> kappa, d |-> d, delta |-> delta,
           w0 |-> w0, w1 |-> w1]

\* a variant of idx that walks the grid column by column
idxTransposed(w, x, y) == x * w + y

idx(w, x, y) == y * w + x

\* a variant that clamps at the edge instead of wrapping around it
beforeClamped(v, last) == IF v = 0 THEN 0 ELSE v - 1

\* y === 0 ? Hm1 : y - 1  and  x === 0 ? Wm1 : x - 1
before(v, last) == IF v = 0 THEN last ELSE v - 1
\* y === Hm1 ? 0 : y + 1  and  x === Wm1 ? 0 : x + 1
after(v, last) == IF v = last THEN 0 ELSE v + 1

\* step, first loop nest: neighbor count and neighbor fertility sum of every
\* cell, iteration k of the nest being (y, x) = (k \div W, k % W).
RECURSIVE Aggregate(_, _)
Aggregate(k, g) ==
    IF g.W <= 0 \/ g.H <= 0 \/ k >= g.W * g.H THEN g
    ELSE LET Wm1 == g.W - 1
             Hm1 == g.H - 1
             y == k \div g.W
             x == k % g.W
             yu == before(y, Hm1)
             yd == after(y, Hm1)
             xl == before(x, Wm1)
             xr == after(x, Wm1)
             p0 == idx(g.W, xl, yu)
             p1 == idx(g.W, x, yu)
             p2 == idx(g.W, xr, yu)
             p3 == idx(g.W, xl, y)
             p5 == idx(g.W, xr, y)
             p6 == idx(g.W, xl, yd)
             p7 == idx(g.W, x, yd)
             p8 == idx(g.W, xr, yd)
             i == idx(g.W, x, y)
             n == g.A[p0] + g.A[p1] + g.A[p2] + g.A[p3] + g.A[p5] + g.A[p6]
                  + g.A[p7] + g.A[p8]
             fs == RAdd(RAdd(RAdd(RAdd(RAdd(RAdd(RAdd(g.F[p0], g.F[p1]),
                       g.F[p2]), g.F[p3]), g.F[p5]), g.F[p6]), g.F[p7]), g.F[p8])
         IN  Aggregate(k + 1, [g EXCEPT !.Nsum[i] = n, !.Fsum[i] = fs])

Eighth == Q(1, 8)

\* const E = w0 * F[i] + w1 * favg
effective(p, f, favg) == RAdd(RMul(p.w0, f), RMul(p.w1, favg))

\* a variant of the birth test without the fertility gate
birthUngated(p, a, n, E) == a = 0 /\ n = 3

\* const birth = a === 0 && n === 3 && E >= tau
birth(p, a, n, E) == a = 0 /\ n = 3 /\ RGe(E, p.tau)

\* a variant of the survival test that accepts two neighbours only
surviveTwoOnly(p, a, n, E) == a = 1 /\ n = 2 /\ RGe(E, p.sigma)

\* a variant of the survival test that does not look at the cell itself
surviveAnyCell(p, a, n, E) == (n = 2 \/ n = 3) /\ RGe(E, p.sigma)

\* const survive = a === 1 && (n === 2 || n === 3) && E >= sigma
survive(p, a, n, E) == a = 1 /\ (n = 2 \/ n = 3) /\ RGe(E, p.sigma)

\* a variant of the soil bookkeeping in which a death deposits nothing
bookkeepNoDeposit(p, a, aNext, f) ==
    LET F2 == IF a = 0 /\ aNext = 1 THEN RMax(Zero, RSub(f, p.beta)) ELSE f
    IN  IF a = 1 /\ aNext = 1 THEN RMax(Zero, RSub(F2, p.kappa)) ELSE F2

\* Soil bookkeeping: the three ifs, in order, on the value of F[i]
bookkeep(p, a, aNext, f) ==
    LET F1 == IF a = 1 /\ aNext = 0 THEN RAdd(f, p.alpha) ELSE f
        F2 == IF a = 0 /\ aNext = 1 THEN RMax(Zero, RSub(F1, p.beta)) ELSE F1
    IN  IF a = 1 /\ aNext = 1 THEN RMax(Zero, RSub(F2, p.kappa)) ELSE F2

\* a variant of the second loop that stores a next-liveness byte only for a
\* cell that will be alive, leaving the other bytes as they were
RECURSIVE TransitionSetOnly(_, _, _)
TransitionSetOnly(i, p, r) ==
    IF i >= r.g.N THEN r
    ELSE LET g == r.g
             n == g.Nsum[i]
             favg == RMul(g.Fsum[i], Eighth)
             E == effective(p, g.F[i], favg)
             a == g.A[i]
             aNext == IF birth(p, a, n, E) \/ survive(p, a, n, E) THEN 1 ELSE 0
         IN  TransitionSetOnly(i + 1, p,
                 [g |-> [g EXCEPT !.A2[i] = IF aNext = 1 THEN 1 ELSE @,
                                  !.F[i] = bookkeep(p, a, aNext, g.F[i])],
                  aliveNext |-> r.aliveNext + aNext])

\* step, second loop: decide transitions using effective fertility, with the
\* soil bookkeeping done in place on F[i].  r = [g, aliveNext].
RECURSIVE Transition(_, _, _)
Transition(i, p, r) ==
    IF i >= r.g.N THEN r
    ELSE LET g == r.g
             n == g.Nsum[i]
             favg == RMul(g.Fsum[i], Eighth)
             E == effective(p, g.F[i], favg)
             a == g.A[i]
             aNext == IF birth(p, a, n, E) \/ survive(p, a, n, E) THEN 1 ELSE 0
         IN  Transition(i + 1, p,
                 [g |-> [g EXCEPT !.A2[i] = aNext,
                                  !.F[i] = bookkeep(p, a, aNext, g.F[i])],
                  aliveNext |-> r.aliveNext + aNext])

\* a variant of the diffusion line without the decay factor
relaxUndecayed(p, f, favg) == RMax(Zero, RAdd(f, RMul(p.d, RSub(favg, f))))

\* F[i] = Math.max(0, (F[i] + d * (favg - F[i])) * (1 - delta))
relax(p, f, favg) ==
    RMax(Zero, RMul(RAdd(f, RMul(p.d, RSub(favg, f))), RSub(One, p.delta)))

\* step, third loop: diffuse & decay
RECURSIVE Diffuse(_, _, _)
Diffuse(i, p, g) ==
    IF i >= g.N THEN g
    ELSE Diffuse(i + 1, p,
             [g EXCEPT !.F[i] = relax(p, g.F[i], RMul(g.Fsum[i], Eighth))])

\* a variant of step() that sums the neighbourhood again after the soil
\* bookkeeping, so that diffusion sees the adjusted fertility
stepResummed(g0, p) ==
    LET r == Transition(0, p, [g |-> Aggregate(0, g0), aliveNext |-> 0])
        g3 == Diffuse(0, p, Aggregate(0, r.g))
    IN  [g |-> [g3 EXCEPT !.A = g3.A2, !.A2 = g3.A, !.gen = g3.gen + 1],
         aliveNext |-> r.aliveNext]

\* a variant of step() whose swap is A = A2 alone: the next buffer becomes
\* the active one and stays the next one as well
stepUnswapped(g0, p) ==
    LET r == Transition(0, p, [g |-> Aggregate(0, g0), aliveNext |-> 0])
        g3 == Diffuse(0, p, r.g)
    IN  [g |-> [g3 EXCEPT !.A = g3.A2, !.gen = g3.gen + 1],
         aliveNext |-> r.aliveNext]

\* step(): the three passes, the buffer swap and gen++; returns aliveNext
step(g0, p) ==
    LET r == Transition(0, p, [g |-> Aggregate(0, g0), aliveNext |-> 0])
        g3 == Diffuse(0, p, r.g)
    IN  [g |-> [g3 EXCEPT !.A = g3.A2, !.A2 = g3.A, !.gen = g3.gen + 1],
         aliveNext |-> r.aliveNext]

\* renderFrame(): new Uint8ClampedArray(N * 4) is a RangeError for a negative
\* length; otherwise it builds the pixels without touching the state.
renderThrows(n) == n * 4 < 0

\* Visualization constants
F_VIS_CAP == Q(3, 2)
DEAD_SOIL_TINT == <<30, 26, 18>>
SOIL_TINT_SCALE == <<Zero, Q(3, 4), Q(1, 5)>>
LIVE_COLOR == <<230, 255, 230>>

\* a / b <= c / e for a, c >= 0 and b, e > 0, by the continued fractions of
\* the two sides (no product is formed)
RECURSIVE FracLe(_, _, _, _)
FracLe(a, b, c, e) ==
    IF a \div b # c \div e THEN a \div b < c \div e
    ELSE IF a % b = 0 THEN TRUE
    ELSE IF c % e = 0 THEN FALSE
    ELSE FracLe(e, c % e, b, a % b)

\* the largest m in lo .. hi with (2m - 1)^2 * sd^2 / (4 * sn^2) <= t, given
\* that lo is one
RECURSIVE Largest(_, _, _, _, _)
Largest(lo, hi, sn, sd, t) ==
    IF lo = hi THEN lo
    ELSE LET m == (lo + hi + 1) \div 2
         IN  IF FracLe((2 * m - 1) * (2 * m - 1) * sd * sd, 4 * sn * sn,
                       t[1], t[2])
             THEN Largest(m, hi, sn, sd, t)
             ELSE Largest(lo, m - 1, sn, sd, t)

\* Math.round(k * c) with c the square root of t, for 0 <= t <= 1 and
\* k >= 0: Math.round rounds a half up, so this is the largest m with
\* m - 1/2 <= k * sqrt(t)
roundScaled(k, t) ==
    IF k = Zero THEN 0 ELSE Largest(0, k[1] \div k[2] + 1, k[1], k[2], t)

\* Math.round(s * 255 * Math.sqrt(t))
roundSqrt(s, t) == roundScaled(RMul(s, <<255, 1>>), t)

\* a store into a Uint8ClampedArray
Clamp8(v) == IF v < 0 THEN 0 ELSE IF v > 255 THEN 255 ELSE v

\* the soil underlay of a dead cell, t = Math.min(F[i] / F_VIS_CAP, 1).  A
\* negative fertility makes Math.sqrt(t) NaN, every soil channel NaN, and a
\* NaN is stored as 0.
Soil(t) ==
    IF t[1] < 0 THEN <<0, 0, 0, 255>>
    ELSE <<Clamp8(DEAD_SOIL_TINT[1] + roundSqrt(SOIL_TINT_SCALE[1], t)),
           Clamp8(DEAD_SOIL_TINT[2] + roundSqrt(SOIL_TINT_SCALE[2], t)),
           Clamp8(DEAD_SOIL_TINT[3] + roundSqrt(SOIL_TINT_SCALE[3], t)), 255>>

\* a variant of the loop body that keeps the soil bytes of a live cell whose
\* soil channels are NaN
PixelSoilFirst(a, f) ==
    IF a = 1 /\ f[1] >= 0
    THEN <<Clamp8(LIVE_COLOR[1]), Clamp8(LIVE_COLOR[2]),
           Clamp8(LIVE_COLOR[3]), 255>>
    ELSE Soil(RMin(RMul(f, <<F_VIS_CAP[2], F_VIS_CAP[1]>>), One))

\* renderFrame(), one cell: the four bytes out[j + 0 .. j + 3]
Pixel(a, f) ==
    IF a = 1
    THEN <<Clamp8(LIVE_COLOR[1]), Clamp8(LIVE_COLOR[2]),
           Clamp8(LIVE_COLOR[3]), 255>>
    ELSE Soil(RMin(RMul(f, <<F_VIS_CAP[2], F_VIS_CAP[1]>>), One))

\* renderFrame(): the bytes of cell i are kept together, so that byte 4i + k
\* of the buffer is renderFrame(g)[i][k + 1]
renderFrame(g) == [i \in 0 .. g.N - 1 |-> Pixel(g.A[i], g.F[i])]

\* the message postFrame hands to self.postMessage
Frame(source, g, aliveCount) ==
    [type |-> "frame", source |-> source, width |-> g.W, height |-> g.H,
     generation |-> g.gen, alive |-> aliveCount, buffer |-> renderFrame(g)]

\* A.reduce((s, v) => s + v, 0)
RECURSIVE SumFrom(_, _)
SumFrom(a, i) == IF i \notin DOMAIN a THEN 0 ELSE a[i] + SumFrom(a, i + 1)
Reduce(a) == SumFrom(a, 0)

\* a variant of ensureArrays that leaves the new F at the zeros of
\* new Float32Array(N)
ensureArraysUnseeded(g, width, height, fInit) ==
    LET n == width * height
    IN  IF n < 0
        THEN [g |-> [g EXCEPT !.W = width, !.H = height, !.N = n], ok |-> FALSE]
        ELSE [g |-> [W |-> width, H |-> height, N |-> n,
                     A |-> ZeroBytes(n), F |-> ZeroFloats(n),
                     A2 |-> ZeroBytes(n), gen |-> 0,
                     Fsum |-> ZeroFloats(n), Nsum |-> ZeroBytes(n)],
              ok |-> TRUE]

\* a variant of ensureArrays without gen = 0
ensureArraysKeepGen(g, width, height, fInit) ==
    LET n == width * height
    IN  IF n < 0
        THEN [g |-> [g EXCEPT !.W = width, !.H = height, !.N = n], ok |-> FALSE]
        ELSE [g |-> [W |-> width, H |-> height, N |-> n,
                     A |-> ZeroBytes(n), F |-> Fill(ZeroFloats(n), fInit),
                     A2 |-> ZeroBytes(n), gen |-> g.gen,
                     Fsum |-> ZeroFloats(n), Nsum |-> ZeroBytes(n)],
              ok |-> TRUE]

\* ensureArrays(width, height): the three assignments to W, H, N come first;
\* new Uint8Array(N) throws a RangeError when N < 0, before anything else is
\* replaced.
ensureArrays(g, width, height, fInit) ==
    LET n == width * height
    IN  IF n < 0
        THEN [g |-> [g EXCEPT !.W = width, !.H = height, !.N = n], ok |-> FALSE]
        ELSE [g |-> [W |-> width, H |-> height, N |-> n,
                     A |-> ZeroBytes(n), F |-> Fill(ZeroFloats(n), fInit),
                     A2 |-> ZeroBytes(n), gen |-> 0,
                     Fsum |-> ZeroFloats(n), Nsum |-> ZeroBytes(n)],
              ok |-> TRUE]

\* assignment of a grid value to the worker's variables
SetGrid(g) ==
    /\ W' = g.W /\ H' = g.H /\ N' = g.N
    /\ A' = g.A /\ F' = g.F /\ A2' = g.A2 /\ gen' = g.gen
    /\ Fsum' = g.Fsum /\ Nsum' = g.Nsum

\* a variant of postFrame that renders the buffer step has just swapped out
PostFrameStale(source, g, aliveCount) ==
    IF renderThrows(g.N)
    THEN post' = NoFrame /\ thrown' = TRUE
    ELSE /\ post' = Frame(source, [g EXCEPT !.A = g.A2, !.A2 = g.A], aliveCount)
         /\ thrown' = FALSE

\* postFrame(aliveCount, source) on the grid g the handler leaves behind
PostFrame(source, g, aliveCount) ==
    IF renderThrows(g.N)
    THEN post' = NoFrame /\ thrown' = TRUE
    ELSE post' = Frame(source, g, aliveCount) /\ thrown' = FALSE

Silent == post' = NoFrame /\ thrown' = FALSE

\* ------------------------------------------------------------ the inputs
\* The fallback defaults of the worker, which are also the host's defaults.
Defaults == [f0 |-> Q(7, 10), tau |-> Q(1, 2), sigma |-> Q(1, 10),
             alpha |-> Q(1, 1), beta |-> Q(2, 5), kappa |-> Q(3, 100),
             d |-> Q(3, 10), delta |-> Q(1, 125), w0 |-> Q(3, 5)]

\* setParams payloads: the host's full parameter set and partial sets
ParamInputs ==
    { Defaults,
      [f0 |-> Q(-1, 2)] }

\* init payloads: widths from -1 and heights 1 and 2 whose product, the cell
\* count N, lies in -1 .. MaxCells
DimInputs ==
    {wh \in (-1 .. MaxCells) \X {1, 2} :
        wh[1] * wh[2] >= -1 /\ wh[1] * wh[2] <= MaxCells}
\* setCell payloads: every cell of a w x h grid and the four positions just
\* outside its corner cells, one for each conjunct of the bounds test
CellInputs(w, h) ==
    LET w1p == IF w < 0 THEN 0 ELSE w
        h1p == IF h < 0 THEN 0 ELSE h
    IN  ((0 .. w1p - 1) \X (0 .. h1p - 1))
        \cup {<<-1, 0>>, <<0, -1>>, <<w1p, 0>>, <<0, h1p>>}

\* ------------------------------------------------------------------ Init
Loaded ==
    /\ initialized = FALSE
    /\ W = 0 /\ H = 0 /\ N = 0
    /\ A = ZeroBytes(0) /\ F = ZeroFloats(0) /\ A2 = ZeroBytes(0)
    /\ gen = 0
    /\ Fsum = ZeroFloats(0) /\ Nsum = ZeroBytes(0)
    /\ f0 = Q(7, 10) /\ tau = Q(1, 2) /\ sigma = Q(1, 10) /\ alpha = Q(1, 1)
    /\ beta = Q(2, 5) /\ kappa = Q(3, 100) /\ d = Q(3, 10) /\ delta = Q(1, 125)
    /\ w0 = Q(3, 5) /\ w1 = RSub(One, Q(3, 5))
    /\ msg = NoMsg /\ post = NoFrame /\ thrown = FALSE
    /\ A0 = Empty

\* no host is attached: nothing is queued in either direction
HostIdle ==
    /\ inbox = <<>> /\ posted = 0 /\ form = Defaults /\ edits = NoEdits
    /\ outbox = <<>>
    /\ stepInFlight = FALSE /\ playing = FALSE
    /\ stepTimer = NoTimer /\ intervals = {}
    /\ generation = 0 /\ aliveCountValue = 0 /\ lastFrame = NoImage

Init == Loaded /\ shown = <<>> /\ HostIdle

\* a variant of the refill that forgets gen = 0
refillKeepGen(g, v) == [g EXCEPT !.A = Fill(g.A, 0), !.F = Fill(g.F, v)]

\* A.fill(0); F.fill(v); gen = 0  (v = f0 in case "reset", 0 in case "clear")
refill(g, v) == [g EXCEPT !.A = Fill(g.A, 0), !.F = Fill(g.F, v), !.gen = 0]

\* ------------------------------------------------- self.onmessage, by case
\* case "init"
OnInit(width, height) ==
    LET r == ensureArrays(Grid, width, height, f0)
    IN  /\ msg' = "init"
        /\ SetGrid(r.g)
        /\ IF r.ok
           THEN initialized' = TRUE /\ PostFrame("init", r.g, 0)
           ELSE initialized' = initialized /\ post' = NoFrame /\ thrown' = TRUE
        /\ UNCHANGED <<params, A0>>

\* a variant of case "step" that posts the frame only when a cell is alive
\* after the step
TickFrameIfAlive(cap) ==
    /\ msg' = "step"
    /\ IF ~initialized
       THEN UNCHANGED grid /\ Silent
       ELSE /\ gen < cap
            /\ \E r \in {step(Grid, Params)} :
                   /\ SetGrid(r.g)
                   /\ IF r.aliveNext = 0 THEN Silent
                      ELSE PostFrame("step", r.g, r.aliveNext)
            /\ UNCHANGED initialized
    /\ UNCHANGED <<params, A0>>

\* case "step"; the model stops stepping at generation cap
Tick(cap) ==
    /\ msg' = "step"
    /\ IF ~initialized
       THEN UNCHANGED grid /\ Silent
       ELSE /\ gen < cap
            /\ \E r \in {step(Grid, Params)} :
                   SetGrid(r.g) /\ PostFrame("step", r.g, r.aliveNext)
            /\ UNCHANGED initialized
    /\ UNCHANGED <<params, A0>>

OnStep == Tick(MaxGen)

\* a variant of case "render" that counts the frame as a generation
OnRenderAdvancing ==
    /\ msg' = "render"
    /\ IF ~initialized
       THEN Silent /\ gen' = gen
       ELSE /\ gen' = gen + 1
            /\ PostFrame("render", [Grid EXCEPT !.gen = gen + 1], Reduce(A))
    /\ UNCHANGED <<initialized, W, H, N, A, F, A2, Fsum, Nsum, params, A0>>

\* a variant of case "render" that leaves the soil it has drawn at half its
\* fertility
OnRenderFading ==
    /\ msg' = "render"
    /\ IF ~initialized
       THEN Silent /\ F' = F
       ELSE /\ PostFrame("render", Grid, Reduce(A))
            /\ F' = [i \in DOMAIN F |-> RMul(F[i], Q(1, 2))]
    /\ UNCHANGED <<initialized, W, H, N, A, A2, gen, Fsum, Nsum, params, A0>>

\* case "render"
OnRender ==
    /\ msg' = "render"
    /\ IF ~initialized THEN Silent ELSE PostFrame("render", Grid, Reduce(A))
    /\ UNCHANGED <<grid, params, A0>>

\* case "reset"
OnReset ==
    /\ msg' = "reset"
    /\ IF ~initialized
       THEN UNCHANGED grid /\ Silent
       ELSE LET g == refill(Grid, f0)
            IN  SetGrid(g) /\ PostFrame("reset", g, 0) /\ UNCHANGED initialized
    /\ UNCHANGED <<params, A0>>

\* a variant of case "clear" without the  if (!initialized) break  guard
OnClearUnguarded ==
    /\ msg' = "clear"
    /\ LET g == refill(Grid, Zero)
       IN  SetGrid(g) /\ PostFrame("clear", g, 0) /\ UNCHANGED initialized
    /\ UNCHANGED <<params, A0>>

\* case "clear"
OnClear ==
    /\ msg' = "clear"
    /\ IF ~initialized
       THEN UNCHANGED grid /\ Silent
       ELSE LET g == refill(Grid, Zero)
            IN  SetGrid(g) /\ PostFrame("clear", g, 0) /\ UNCHANGED initialized
    /\ UNCHANGED <<params, A0>>

\* a variant of case "setCell" that wraps the coordinates instead of testing
\* them
OnSetCellWrapped(x, y, v) ==
    /\ msg' = "setCell"
    /\ IF initialized /\ W > 0 /\ H > 0
       THEN A' = [A EXCEPT ![idx(W, x % W, y % H)] = v]
       ELSE A' = A
    /\ Silent
    /\ UNCHANGED <<initialized, W, H, N, F, A2, gen, Fsum, Nsum, params, A0>>

\* a variant of case "setCell" that adds v to the byte instead of storing it
OnSetCellAdding(x, y, v) ==
    /\ msg' = "setCell"
    /\ IF initialized /\ x >= 0 /\ y >= 0 /\ x < W /\ y < H
       THEN A' = [A EXCEPT ![idx(W, x, y)] = (@ + v) % 256]
       ELSE A' = A
    /\ Silent
    /\ UNCHANGED <<initialized, W, H, N, F, A2, gen, Fsum, Nsum, params, A0>>

\* case "setCell"
OnSetCell(x, y, v) ==
    /\ msg' = "setCell"
    /\ IF initialized /\ x >= 0 /\ y >= 0 /\ x < W /\ y < H
       THEN A' = [A EXCEPT ![idx(W, x, y)] = v]
       ELSE A' = A
    /\ Silent
    /\ UNCHANGED <<initialized, W, H, N, F, A2, gen, Fsum, Nsum, params, A0>>

\* a variant of case "setParams" that stores w0 as it comes
OnSetParamsUnclamped(p) ==
    LET Has(k) == k \in DOMAIN p
    IN  /\ msg' = "setParams"
        /\ f0' = IF Has("f0") THEN p.f0 ELSE f0
        /\ tau' = IF Has("tau") THEN p.tau ELSE tau
        /\ sigma' = IF Has("sigma") THEN p.sigma ELSE sigma
        /\ alpha' = IF Has("alpha") THEN p.alpha ELSE alpha
        /\ beta' = IF Has("beta") THEN p.beta ELSE beta
        /\ kappa' = IF Has("kappa") THEN p.kappa ELSE kappa
        /\ d' = IF Has("d") THEN p.d ELSE d
        /\ delta' = IF Has("delta") THEN p.delta ELSE delta
        /\ w0' = IF Has("w0") THEN p.w0 ELSE w0
        /\ w1' = IF Has("w0") THEN RSub(One, p.w0) ELSE w1
        /\ Silent
        /\ UNCHANGED <<grid, A0>>

\* a variant of case "setParams" in which a field that is not provided falls
\* back to its default
OnSetParamsDefaulting(p) ==
    LET q == [k \in DOMAIN Defaults |->
                 IF k \in DOMAIN p THEN p[k] ELSE Defaults[k]]
    IN  /\ msg' = "setParams"
        /\ f0' = q.f0 /\ tau' = q.tau /\ sigma' = q.sigma /\ alpha' = q.alpha
        /\ beta' = q.beta /\ kappa' = q.kappa /\ d' = q.d /\ delta' = q.delta
        /\ w0' = RMax(Zero, RMin(One, q.w0))
        /\ w1' = RSub(One, RMax(Zero, RMin(One, q.w0)))
        /\ Silent
        /\ UNCHANGED <<grid, A0>>

\* a variant of case "setParams" that, like the other commands, returns before
\* init
OnSetParamsWhenReady(p) ==
    LET Has(k) == k \in DOMAIN p
    IN  /\ msg' = "setParams"
        /\ IF ~initialized
           THEN UNCHANGED params
           ELSE /\ f0' = IF Has("f0") THEN p.f0 ELSE f0
                /\ tau' = IF Has("tau") THEN p.tau ELSE tau
                /\ sigma' = IF Has("sigma") THEN p.sigma ELSE sigma
                /\ alpha' = IF Has("alpha") THEN p.alpha ELSE alpha
                /\ beta' = IF Has("beta") THEN p.beta ELSE beta
                /\ kappa' = IF Has("kappa") THEN p.kappa ELSE kappa
                /\ d' = IF Has("d") THEN p.d ELSE d
                /\ delta' = IF Has("delta") THEN p.delta ELSE delta
                /\ w0' = IF Has("w0") THEN RMax(Zero, RMin(One, p.w0)) ELSE w0
                /\ w1' = IF Has("w0") THEN RSub(One, RMax(Zero, RMin(One, p.w0)))
                         ELSE w1
        /\ Silent
        /\ UNCHANGED <<grid, A0>>

\* case "setParams"
OnSetParams(p) ==
    LET Has(k) == k \in DOMAIN p
    IN  /\ msg' = "setParams"
        /\ f0' = IF Has("f0") THEN p.f0 ELSE f0
        /\ tau' = IF Has("tau") THEN p.tau ELSE tau
        /\ sigma' = IF Has("sigma") THEN p.sigma ELSE sigma
        /\ alpha' = IF Has("alpha") THEN p.alpha ELSE alpha
        /\ beta' = IF Has("beta") THEN p.beta ELSE beta
        /\ kappa' = IF Has("kappa") THEN p.kappa ELSE kappa
        /\ d' = IF Has("d") THEN p.d ELSE d
        /\ delta' = IF Has("delta") THEN p.delta ELSE delta
        /\ w0' = IF Has("w0") THEN RMax(Zero, RMin(One, p.w0)) ELSE w0
        /\ w1' = IF Has("w0") THEN RSub(One, RMax(Zero, RMin(One, p.w0))) ELSE w1
        /\ Silent
        /\ UNCHANGED <<grid, A0>>

\* case "restart", the message the host's Restart button posts ("Keep current
\* A (alive pattern), reset fertility and generation"): the reset variant that
\* preserves the liveness pattern, re-seeds the fertility to f0, resets the
\* generation and returns a fresh frame.
OnRestart ==
    /\ msg' = "restart"
    /\ IF ~initialized
       THEN UNCHANGED grid /\ Silent
       ELSE LET g == [Grid EXCEPT !.F = Fill(Grid.F, f0), !.gen = 0]
            IN  SetGrid(g) /\ PostFrame("restart", g, Reduce(g.A))
                /\ UNCHANGED initialized
    /\ UNCHANGED <<params, A0>>

\* The handlers leave the history variable shown to the specification.  The
\* host sends an init with a negative cell count only as its first message or
\* right after another init.
Next ==
    \/ \E wh \in DimInputs :
           /\ wh[1] * wh[2] < 0 => msg \in {NoMsg, "init"}
           /\ OnInit(wh[1], wh[2]) /\ UNCHANGED <<shown, host>>
    \/ OnStep /\ UNCHANGED <<shown, host>>
    \/ OnRender /\ UNCHANGED <<shown, host>>
    \/ OnReset /\ UNCHANGED <<shown, host>>
    \/ OnClear /\ UNCHANGED <<shown, host>>
    \/ \E xy \in CellInputs(W, H), v \in {0, 1} :
           OnSetCell(xy[1], xy[2], v) /\ UNCHANGED <<shown, host>>
    \/ \E p \in ParamInputs : OnSetParams(p) /\ UNCHANGED <<shown, host>>

Spec == Init /\ [][Next]_vars

\* ------------------------------------------------ one tick as a function
\* A worker that has handled setParams, init and some setCell messages, and
\* then only step messages.

\* every set of at most k elements of S
RECURSIVE UpTo(_, _)
UpTo(S, k) ==
    IF k = 0 THEN {{}}
    ELSE LET r == UpTo(S, k - 1) IN r \cup {T \cup {x} : T \in r, x \in S}

Pattern(n, live) == [i \in 0 .. n - 1 |-> IF i \in live THEN 1 ELSE 0]

\* parameter values left behind by setParams messages
StepParams ==
    { Defaults,
      [Defaults EXCEPT !.sigma = One, !.alpha = Q(-2, 1), !.beta = One],
      [Defaults EXCEPT !.f0 = Q(1, 2), !.tau = One, !.kappa = One,
                       !.d = Q(1, 2), !.delta = Q(1, 2), !.w0 = One] }

\* the state after setParams(c), init(w, h) and setCell(x, y, 1) for the cells
\* of live
Seeded(c, w, h, live) ==
    /\ initialized = TRUE
    /\ W = w /\ H = h /\ N = w * h
    /\ A = Pattern(w * h, live)
    /\ F = Fill(ZeroFloats(w * h), c.f0)
    /\ A2 = ZeroBytes(w * h)
    /\ gen = 0
    /\ Fsum = ZeroFloats(w * h) /\ Nsum = ZeroBytes(w * h)
    /\ f0 = c.f0 /\ tau = c.tau /\ sigma = c.sigma /\ alpha = c.alpha
    /\ beta = c.beta /\ kappa = c.kappa /\ d = c.d /\ delta = c.delta
    /\ w0 = c.w0 /\ w1 = RSub(One, c.w0)
    /\ msg = "setCell" /\ post = NoFrame /\ thrown = FALSE
    /\ shown = <<>> /\ HostIdle

\* every pattern of at most MaxLive live cells on the grids up to StepDim x
\* StepDim, and the single live cell at (0, 0) on the grids up to WrapDim x
\* WrapDim
InitStep ==
    \/ \E c \in StepParams, w \in 1 .. StepDim, h \in 1 .. StepDim :
           \E live \in UpTo(0 .. w * h - 1, MaxLive) :
               Seeded(c, w, h, live) /\ A0 = Empty
    \/ \E w \in 1 .. WrapDim, h \in 1 .. WrapDim :
           Seeded(Defaults, w, h, {0}) /\ A0 = Empty

NextStep == Tick(StepGen) /\ UNCHANGED <<shown, host>>

SpecStep == InitStep /\ [][NextStep]_vars

\* ------------------------------------------- fertility gating switched off
\* alpha = beta = kappa = 0 and tau = sigma = 0; decay is halving so that the
\* fertility stays representable over LifeGen ticks.
LifeParams ==
    { [Defaults EXCEPT !.tau = Zero, !.sigma = Zero, !.alpha = Zero,
                       !.beta = Zero, !.kappa = Zero, !.delta = Q(1, 2)],
      [Defaults EXCEPT !.tau = Zero, !.sigma = Zero, !.alpha = Zero,
                       !.beta = Zero, !.kappa = Zero, !.delta = Zero,
                       !.f0 = Zero, !.w0 = Zero] }

\* the classic 5-cell glider with its bounding box at (ox, oy) on a w x w torus
GliderCells(w, ox, oy) ==
    { idx(w, (ox + c[1]) % w, (oy + c[2]) % w) :
        c \in {<<1, 0>>, <<2, 1>>, <<0, 2>>, <<1, 2>>, <<2, 2>>} }

InitLife ==
    \E c \in LifeParams :
        \/ \E w \in 1 .. StepDim, h \in 1 .. StepDim :
               \E live \in UpTo(0 .. w * h - 1, MaxLive) :
                   Seeded(c, w, h, live) /\ A0 = Pattern(w * h, live)
        \/ \E ox \in 0 .. LifeDim - 1, oy \in 0 .. LifeDim - 1 :
               /\ Seeded(c, LifeDim, LifeDim, GliderCells(LifeDim, ox, oy))
               /\ A0 = Pattern(LifeDim * LifeDim, GliderCells(LifeDim, ox, oy))

NextLife == Tick(LifeGen) /\ UNCHANGED <<shown, host>>

SpecLife == InitLife /\ [][NextLife]_vars

\* -------------------------------------------------------------- cell edits
\* A worker that has handled init and then only setCell messages, which keep
\* at most MaxLive cells alive; and a worker that has handled no init.
InitCell ==
    \/ \E w \in 1 .. StepDim, h \in 1 .. StepDim :
           Seeded(Defaults, w, h, {}) /\ A0 = Empty
    \/ Init

NextCell ==
    \E xy \in CellInputs(W, H), v \in {0, 1} :
        OnSetCell(xy[1], xy[2], v) /\ Reduce(A') <= MaxLive /\ UNCHANGED <<shown, host>>

SpecCell == InitCell /\ [][NextCell]_vars

\* ---------------------------------------------------------------- rendering
\* A worker that has handled setParams and init on a grid of at most MaxCells
\* cells, and then render, setCell and step messages.  shown lists the buffers
\* of the frames that the render messages since the last step have posted, at
\* most MaxShown of them.  The host sends no two setCell messages in a row.
RenderParams == { Defaults, [Defaults EXCEPT !.f0 = Q(-1, 2)] }

InitRender ==
    \E c \in RenderParams, w \in 1 .. MaxCells, h \in 1 .. MaxCells :
        w * h <= MaxCells /\ Seeded(c, w, h, {}) /\ A0 = Empty

RenderShown ==
    /\ Len(shown) < MaxShown
    /\ OnRender
    /\ shown' = IF post' = NoFrame THEN shown ELSE Append(shown, post'.buffer)
    /\ UNCHANGED host

NextRender ==
    \/ RenderShown
    \/ \E xy \in CellInputs(W, H), v \in {0, 1} :
           msg # "setCell" /\ OnSetCell(xy[1], xy[2], v) /\ UNCHANGED <<shown, host>>
    \/ Tick(StepGen) /\ shown' = <<>> /\ UNCHANGED host

SpecRender == InitRender /\ [][NextRender]_vars

\* ------------------------------------------------------------------ tuning
\* A worker that handles setParams messages with partial parameter sets, before
\* and after init, and init and reset messages.  At most MaxTuned parameters are
\* away from their defaults at a time.
TuneInputs ==
    { Defaults,
      [f0 |-> Q(-1, 2)], [tau |-> One], [sigma |-> One], [alpha |-> Q(-2, 1)],
      [beta |-> One], [kappa |-> One], [d |-> Q(1, 2)], [delta |-> Q(1, 2)],
      [w0 |-> Q(2, 1)], [w0 |-> Q(-1, 1)], [w0 |-> Q(1, 4)],
      [f0 |-> Q(1, 4), w0 |-> Q(-3, 2)] }

Tuned(p) == Cardinality({k \in DOMAIN Defaults : p[k] # Defaults[k]})

InitTune ==
    \/ Init
    \/ \E w \in 1 .. MaxCells : Seeded(Defaults, w, 1, {}) /\ A0 = Empty

NextTune ==
    \/ \E p \in TuneInputs :
           OnSetParams(p) /\ Tuned(Params') <= MaxTuned /\ UNCHANGED <<shown, host>>
    \/ \E w \in 1 .. MaxCells : OnInit(w, 1) /\ UNCHANGED <<shown, host>>
    \/ OnReset /\ UNCHANGED <<shown, host>>

SpecTune == InitTune /\ [][NextTune]_vars

\* ---------------------------------------------------------------- hot swap
\* A worker that has handled init and setCell messages on a one-row grid with
\* the default parameters, and then setParams and step messages: the host
\* sends one partial parameter set, then a step.
HotInputs ==
    { [tau |-> One], [sigma |-> One], [alpha |-> Q(-2, 1)], [beta |-> One],
      [kappa |-> One], [d |-> Q(1, 2)], [delta |-> Q(1, 2)],
      [w0 |-> Q(2, 1)], [w0 |-> Zero] }

InitHot ==
    \E w \in 1 .. StepDim :
        \E live \in UpTo(0 .. w - 1, MaxLive) :
            Seeded(Defaults, w, 1, live) /\ A0 = Empty

NextHot ==
    \/ \E p \in HotInputs :
           /\ msg # "setParams" /\ gen < StepGen
           /\ OnSetParams(p) /\ UNCHANGED <<shown, host>>
    \/ Tick(StepGen) /\ UNCHANGED <<shown, host>>

SpecHot == InitHot /\ [][NextHot]_vars

\* ------------------------------------------------------------- fallow soil
\* A worker that has handled setParams and init, with no cell set alive, and
\* then only step messages, at most FallowGen of them.
FallowParams ==
    { [Defaults EXCEPT !.f0 = f, !.d = dd, !.delta = dl] :
          f \in {Q(7, 10), Q(3, 2)}, dd \in {Q(3, 10), One},
          dl \in {Zero, Q(1, 4), Q(1, 2)} }

InitFallow ==
    \E c \in FallowParams, w \in 1 .. StepDim, h \in 1 .. StepDim :
        Seeded(c, w, h, {}) /\ A0 = Empty

NextFallow == Tick(FallowGen) /\ UNCHANGED <<shown, host>>

SpecFallow == InitFallow /\ [][NextFallow]_vars

\* ----------------------------------------------------------------- restart
\* A worker that has handled setParams, init and setCell messages on a one-row
\* grid, and then step and restart messages.
InitRestart ==
    \E c \in StepParams, w \in 1 .. StepDim :
        \E live \in UpTo(0 .. w - 1, MaxLive) :
            Seeded(c, w, 1, live) /\ A0 = Empty

NextRestart ==
    \/ Tick(StepGen) /\ UNCHANGED <<shown, host>>
    \/ OnRestart /\ UNCHANGED <<shown, host>>

SpecRestart == InitRestart /\ [][NextRestart]_vars

\* -------------------------------------------------------------- buffers
\* A worker that has handled setParams, init and setCell messages on a
\* one-row grid, and then step messages, setCell messages after a step and
\* render messages after a setCell, up to generation SwapGen.
SwapParams ==
    { [Defaults EXCEPT !.f0 = One, !.sigma = Q(1, 2), !.kappa = Zero,
                       !.d = Q(1, 2), !.delta = Q(1, 2)],
      [Defaults EXCEPT !.f0 = Q(1, 2), !.tau = One, !.kappa = One,
                       !.d = Q(1, 2), !.delta = Q(1, 2), !.w0 = One] }

InitSwap ==
    \E c \in SwapParams, w \in 1 .. MaxCells :
        \E live \in SUBSET (0 .. w - 1) :
            Seeded(c, w, 1, live) /\ A0 = Empty

NextSwap ==
    \/ Tick(SwapGen) /\ UNCHANGED <<shown, host>>
    \/ \E xy \in CellInputs(W, H), v \in {0, 1} :
           msg = "step" /\ OnSetCell(xy[1], xy[2], v) /\ UNCHANGED <<shown, host>>
    \/ msg = "setCell" /\ OnRender /\ UNCHANGED <<shown, host>>

SpecSwap == InitSwap /\ [][NextSwap]_vars

\* ------------------------------------------------------- host and worker
\* The page and its worker: the host functions post messages into inbox, the
\* worker handles them one at a time in the order posted and posts its frames
\* into outbox, and the host's worker.onmessage takes them in the order
\* posted.  The grid is HostW x HostH; the host posts at most MaxPosted
\* messages, and the parameter form is left as it was when
\* the page was mounted.
HostW == MaxCells
HostH == 1

\* the values of the page's parameter form
HostParams == { Defaults, [Defaults EXCEPT !.f0 = Q(1, 2), !.w0 = Q(2, 1)] }

\* sendParams(): the whole form, w0 clamped to [0, 1]
sendParams ==
    [type |-> "setParams",
     params |-> [form EXCEPT !.w0 = RMax(Zero, RMin(One, form.w0))]]

\* onMounted(): initWorker() loads the worker and posts the parameters and
\* init, setupCanvas() posts the initial render; nothing is handled yet
onMounted ==
    /\ Loaded /\ shown = <<>>
    /\ form \in HostParams
    /\ inbox = <<sendParams,
                 [type |-> "init", width |-> HostW, height |-> HostH],
                 [type |-> "render"]>>
    /\ posted = 3 /\ edits = NoEdits /\ outbox = <<>>
    /\ stepInFlight = FALSE /\ playing = FALSE
    /\ stepTimer = NoTimer /\ intervals = {}
    /\ generation = 0 /\ aliveCountValue = 0 /\ lastFrame = NoImage

\* worker.postMessage of one message after another
Posted(ms) ==
    /\ posted + Len(ms) <= MaxPosted
    /\ inbox' = inbox \o ms
    /\ posted' = posted + Len(ms)

\* requestStep()
requestStep ==
    IF stepInFlight
    THEN UNCHANGED <<stepInFlight, inbox, posted, edits>>
    ELSE stepInFlight' = TRUE /\ Posted(<<[type |-> "step"]>>)
         /\ edits' = NoEdits

\* pause(): the effect on playing, stepTimer and the page's intervals
pause ==
    /\ playing' = FALSE
    /\ stepTimer' = NoTimer
    /\ intervals' = intervals \ {stepTimer}

\* window.setInterval: an id that no active interval has
setInterval(active) == CHOOSE id \in 1 .. Cardinality(active) + 1 : id \notin active

\* a variant of applySpeed() without clearInterval(stepTimer)
applySpeedLeaky(on) ==
    IF ~on
    THEN UNCHANGED <<stepTimer, intervals>>
    ELSE /\ stepTimer' = setInterval(intervals)
         /\ intervals' = intervals \cup {stepTimer'}

\* applySpeed() once playing has the value on: clear the old interval, start
\* a new one
applySpeed(on) ==
    IF ~on
    THEN UNCHANGED <<stepTimer, intervals>>
    ELSE /\ stepTimer' = setInterval(intervals \ {stepTimer})
         /\ intervals' = (intervals \ {stepTimer}) \cup {stepTimer'}

\* togglePlay(): pause() when playing, else play()
togglePlay ==
    /\ IF playing THEN pause
       ELSE playing' = TRUE /\ applySpeed(TRUE)
    /\ UNCHANGED <<inbox, posted, form, edits, outbox, stepInFlight, generation,
                   aliveCountValue, lastFrame>>

\* the speed slider moves: applySpeed()
SpeedChanged ==
    /\ playing /\ applySpeed(playing)
    /\ UNCHANGED <<inbox, posted, form, edits, outbox, stepInFlight, playing, generation,
                   aliveCountValue, lastFrame>>

\* an active interval fires: requestStep().  The timer and the user ask for
\* no step once the worker is at generation StepGen.
TimerFires ==
    /\ intervals # {} /\ ~stepInFlight /\ gen < StepGen
    /\ requestStep
    /\ UNCHANGED <<form, outbox, playing, stepTimer, intervals, generation, aliveCountValue,
                   lastFrame>>

\* stepOnce(): the Step button
stepOnce ==
    /\ gen < StepGen
    /\ IF playing THEN UNCHANGED <<stepInFlight, inbox, posted, edits>> ELSE requestStep
    /\ UNCHANGED <<form, outbox, playing, stepTimer, intervals, generation, aliveCountValue,
                   lastFrame>>

\* the cell edits with cell i set to v
Edited(i, v) ==
    [j \in DOMAIN edits \cup {i} |-> IF j = i THEN v ELSE edits[j]]

\* a variant of the pointer handlers that requests the render before it sends
\* the cell
PaintRenderFirst(x, y, v) ==
    /\ Posted(<<[type |-> "render"],
                [type |-> "setCell", x |-> x, y |-> y, v |-> v]>>)
    /\ edits' = Edited(idx(HostW, x, y), v)
    /\ UNCHANGED <<form, outbox, stepInFlight, playing, stepTimer, intervals,
                   generation, aliveCountValue, lastFrame>>

\* onPointerDown / onPointerMove on a cell: setCell(cx, cy, drawValue) and
\* requestRender()
Paint(x, y, v) ==
    /\ Posted(<<[type |-> "setCell", x |-> x, y |-> y, v |-> v],
                [type |-> "render"]>>)
    /\ edits' = Edited(idx(HostW, x, y), v)
    /\ UNCHANGED <<form, outbox, stepInFlight, playing, stepTimer, intervals,
                   generation, aliveCountValue, lastFrame>>

\* resetAll()
resetAll ==
    /\ pause
    /\ generation' = 0 /\ aliveCountValue' = 0
    /\ Posted(<<[type |-> "reset"]>>)
    /\ edits' = NoEdits
    /\ UNCHANGED <<form, outbox, stepInFlight, lastFrame>>

\* a variant of worker.onmessage that clears stepInFlight on every frame
HostOnMessageAnySource ==
    /\ outbox # <<>>
    /\ outbox' = Tail(outbox)
    /\ lastFrame' = Head(outbox).buffer
    /\ generation' = Head(outbox).generation
    /\ aliveCountValue' = Head(outbox).alive
    /\ stepInFlight' = FALSE
    /\ UNCHANGED <<inbox, posted, form, edits, playing, stepTimer, intervals>>

\* worker.onmessage: the oldest frame posted is delivered
HostOnMessage ==
    /\ outbox # <<>>
    /\ outbox' = Tail(outbox)
    /\ lastFrame' = Head(outbox).buffer
    /\ generation' = Head(outbox).generation
    /\ aliveCountValue' = Head(outbox).alive
    /\ stepInFlight' = IF Head(outbox).source = "step" THEN FALSE ELSE stepInFlight
    /\ UNCHANGED <<inbox, posted, form, edits, playing, stepTimer, intervals>>

\* self.onmessage on the message m
Dispatch(m) ==
    CASE m.type = "init" -> OnInit(m.width, m.height)
      [] m.type = "step" -> Tick(StepGen)
      [] m.type = "render" -> OnRender
      [] m.type = "reset" -> OnReset
      [] m.type = "setCell" -> OnSetCell(m.x, m.y, m.v)
      [] m.type = "setParams" -> OnSetParams(m.params)

\* the worker takes the oldest message posted and handles it; a frame it
\* posts is queued for the host
WorkerOnMessage ==
    /\ inbox # <<>>
    /\ Dispatch(Head(inbox))
    /\ inbox' = Tail(inbox)
    /\ outbox' = IF post' = NoFrame THEN outbox ELSE Append(outbox, post')
    /\ UNCHANGED <<form, edits, shown, posted, stepInFlight, playing, stepTimer, intervals,
                   generation, aliveCountValue, lastFrame>>

HostActs ==
    \/ togglePlay
    \/ SpeedChanged
    \/ TimerFires
    \/ stepOnce
    \/ \E x \in 0 .. HostW - 1, v \in {0, 1} : Paint(x, 0, v)
    \/ resetAll
    \/ HostOnMessage

NextHost ==
    \/ HostActs /\ UNCHANGED <<grid, params, msg, post, thrown, A0, shown>>
    \/ WorkerOnMessage

SpecHost == onMounted /\ [][NextHost]_vars

\* the steps that take the oldest message off inbox: those of WorkerOnMessage,
\* since no function of the host shortens inbox
InboxTaken == inbox # <<>> /\ inbox' = Tail(inbox)

\* The worker's event loop handles a message that is waiting, and the host's
\* event loop delivers a frame that is waiting.
SpecHostFair ==
    /\ onMounted /\ [][NextHost]_vars
    /\ WF_inbox(InboxTaken) /\ WF_outbox(HostOnMessage)

\* ------------------------------------------------------------ type check
IsRat(q) == q \in Int \X Int /\ q[2] > 0 /\ Gcd(Abs(q[1]), q[2]) = 1
TypeOK ==
    /\ initialized \in BOOLEAN
    /\ W \in Int /\ H \in Int /\ N \in Int /\ gen \in Nat
    /\ \A i \in DOMAIN A : A[i] \in {0, 1}
    /\ \A i \in DOMAIN F : IsRat(F[i])
    /\ \A q \in {f0, tau, sigma, alpha, beta, kappa, d, delta, w0, w1} : IsRat(q)

\* ============================================================== properties
\* The neighbourhood as the description states it: the 8 cells at the offsets
\* (dx, dy) other than (0, 0) with dx, dy in -1 .. 1, the coordinates taken
\* modulo the width and the height.  An offset counts once even when two
\* offsets fall on the same cell.
Offsets == (-1 .. 1) \X (-1 .. 1) \ {<<0, 0>>}
NbrAt(w, h, i, o) ==
    (((i \div w) + o[2]) % h) * w + (((i % w) + o[1]) % w)
NbrAlive(a, w, h, i) == Cardinality({o \in Offsets : a[NbrAt(w, h, i, o)] = 1})
RECURSIVE RSum(_, _)
RSum(f, S) ==
    IF S = {} THEN Zero
    ELSE LET o == CHOOSE e \in S : TRUE IN RAdd(f[o], RSum(f, S \ {o}))
NbrFert(f, w, h, i) == RSum([o \in Offsets |-> f[NbrAt(w, h, i, o)]], Offsets)

\* a step message handled in the Ready state
Stepping == initialized /\ msg' = "step"

\* -------------------------------------------------------------------- C1
\* C1: every fertility value is at least 0 in every state the kernel can
\* reach, whatever parameters were set before.
C1_FertilityNonNegative == \A i \in DOMAIN F : RGe(F[i], Zero)

\* -------------------------------------------------------------------- C2
\* C2: one step decides every cell from the pre-tick A and F alone: the cell
\* is alive afterwards exactly when it was dead with 3 live neighbours and
\* E >= tau, or alive with 2 or 3 live neighbours and E >= sigma, where
\* E = w0 * F + w1 * (neighbour fertility sum / 8).
RuleAlive(i) ==
    LET n == NbrAlive(A, W, H, i)
        E == RAdd(RMul(w0, F[i]), RMul(w1, RMul(NbrFert(F, W, H, i), Q(1, 8))))
    IN  \/ A[i] = 0 /\ n = 3 /\ RGe(E, tau)
        \/ A[i] = 1 /\ n \in {2, 3} /\ RGe(E, sigma)
C2_SynchronousRule ==
    [][Stepping => \A i \in 0 .. N - 1 : (A'[i] = 1) <=> RuleAlive(i)]_vars

\* a step in which one cell was born and another survived
C2_Witness ==
    /\ msg = "step" /\ gen = 1
    /\ \E i, j \in DOMAIN A : A[i] = 1 /\ A2[i] = 0 /\ A[j] = 1 /\ A2[j] = 1

\* -------------------------------------------------------------------- C3
\* C3: after one step the fertility of every cell is
\* max(0, (G + d * (favg - G)) * (1 - delta)), with G the pre-tick fertility
\* adjusted by the cell's transition (death +alpha; birth -beta floored at 0;
\* survival -kappa floored at 0; otherwise unchanged) and favg the mean of
\* the pre-tick fertility of the 8 neighbours.
Adjusted(i) ==
    IF A[i] = 1 /\ A'[i] = 0 THEN RAdd(F[i], alpha)
    ELSE IF A[i] = 0 /\ A'[i] = 1 THEN RMax(Zero, RSub(F[i], beta))
    ELSE IF A[i] = 1 /\ A'[i] = 1 THEN RMax(Zero, RSub(F[i], kappa))
    ELSE F[i]
Relaxed(i) ==
    LET G == Adjusted(i)
        favg == RMul(NbrFert(F, W, H, i), Q(1, 8))
    IN  RMax(Zero, RMul(RAdd(G, RMul(d, RSub(favg, G))), RSub(One, delta)))
C3_FertilityUpdate ==
    [][Stepping => \A i \in 0 .. N - 1 : F'[i] = Relaxed(i)]_vars

\* a step with births and deaths in which the fertility of a dying cell was
\* floored at 0 and that of a newborn cell stayed positive
C3_Witness ==
    /\ msg = "step" /\ gen = 1
    /\ \E i, j \in DOMAIN A :
          /\ A[i] = 1 /\ A2[i] = 0 /\ RLt(Zero, F[i])
          /\ A[j] = 0 /\ A2[j] = 1 /\ F[j] = Zero

\* -------------------------------------------------------------------- C4
\* the state after the first step from a single live cell at (0, 0): A2 is
\* the pre-tick liveness and Nsum the neighbour counts that step computed
SingleAtOrigin == msg = "step" /\ gen = 1 /\ N >= 1 /\ A2 = Pattern(N, {0})
Listed(w, h) ==
    {<<w - 1, h - 1>>, <<w - 1, 0>>, <<0, h - 1>>, <<1, 0>>, <<0, 1>>,
     <<1, 1>>, <<w - 1, 1>>, <<1, h - 1>>}
CountedOnce ==
    \A x \in 0 .. W - 1, y \in 0 .. H - 1 :
        Nsum[y * W + x] = IF <<x, y>> \in Listed(W, H) THEN 1 ELSE 0

\* C4: on every grid of at least 3 x 3 cells a single live cell at (0, 0)
\* counts as exactly one live neighbour of each of (W-1, H-1), (W-1, 0),
\* (0, H-1), (1, 0), (0, 1), (1, 1), (W-1, 1), (1, H-1) and of no other cell.
C4_Wraparound == SingleAtOrigin /\ W >= 3 /\ H >= 3 => CountedOnce

\* C4 as stated, for every grid W x H
C4_EveryGrid == SingleAtOrigin => CountedOnce

\* a grid on which some cells are not neighbours of (0, 0)
C4_Witness == SingleAtOrigin /\ W >= 4 /\ H >= 4 /\ CountedOnce

\* -------------------------------------------------------------------- C5
\* Conway's Life (B3/S23) on the same torus
LifeNext(a, w, h) ==
    [i \in DOMAIN a |->
        LET n == NbrAlive(a, w, h, i)
        IN  IF n = 3 \/ (a[i] = 1 /\ n = 2) THEN 1 ELSE 0]
RECURSIVE LifeIter(_, _, _, _)
LifeIter(a, w, h, k) ==
    IF k = 0 THEN a ELSE LifeIter(LifeNext(a, w, h), w, h, k - 1)
\* the pattern a moved by (dx, dy) on the torus
Shifted(a, w, h, dx, dy) ==
    [i \in DOMAIN a |->
        a[(((i \div w) - dy) % h) * w + (((i % w) - dx) % w)]]
IsGlider(a) ==
    /\ W = H /\ W >= 5
    /\ \E ox, oy \in 0 .. W - 1 : a = Pattern(N, GliderCells(W, ox, oy))
GatingOff ==
    /\ alpha = Zero /\ beta = Zero /\ kappa = Zero
    /\ tau = Zero /\ sigma = Zero

\* C5: with alpha = beta = kappa = 0 and tau = sigma = 0 the liveness after
\* every number of steps is that of Conway's Life on the same torus, and a
\* glider is the same glider moved by (1, 1) after 4 steps.
C5_LifeEquivalence ==
    GatingOff =>
        /\ A = LifeIter(A0, W, H, gen)
        /\ gen = 4 /\ IsGlider(A0) => A = Shifted(A0, W, H, 1, 1)

\* a glider four steps on
C5_Witness ==
    /\ GatingOff /\ msg = "step" /\ gen = 4 /\ IsGlider(A0)
    /\ A = Shifted(A0, W, H, 1, 1) /\ A # A0

\* -------------------------------------------------------------------- C6
AllDead == \A i \in DOMAIN A : A[i] = 0
Uniform(v) == \A i \in DOMAIN F : F[i] = v
ReportsEmpty == post # NoFrame => post.alive = 0 /\ post.generation = 0

\* C6: after clear every cell is dead, every fertility is 0 and the
\* generation is 0; after reset every cell is dead, every fertility is the
\* current f0 and the generation is 0; the frame either posts reports
\* generation 0 with 0 cells alive.
C6_ClearReset ==
    /\ msg = "clear" => AllDead /\ Uniform(Zero) /\ gen = 0 /\ ReportsEmpty
    /\ msg = "reset" => AllDead /\ Uniform(f0) /\ gen = 0 /\ ReportsEmpty

\* a reset of a grid that has been stepped with live cells on it, under an
\* f0 that was changed after init
C6_Witness ==
    /\ msg = "reset" /\ initialized /\ N >= 2 /\ post # NoFrame
    /\ f0 # Defaults.f0 /\ Uniform(f0)
    /\ \E i \in DOMAIN A2 : A2[i] = 1

\* -------------------------------------------------------------------- C7
\* a message other than init handled before any successful init
Early == ~initialized /\ msg' # "init"

\* C7: while uninitialized, every command other than init and setParams
\* changes nothing and posts nothing; setParams changes the parameters only
\* and posts nothing.
C7_UninitializedNoOp ==
    [][Early => /\ UNCHANGED grid
                /\ post' = NoFrame /\ thrown' = FALSE
                /\ msg' # "setParams" => UNCHANGED params]_vars

\* C7 as stated: every command other than init changes nothing
C7_AllNoOp ==
    [][Early => UNCHANGED <<grid, params>> /\ post' = NoFrame]_vars

\* a reset that was ignored
C7_Witness ==
    /\ ~initialized /\ msg = "reset" /\ post = NoFrame /\ ~thrown
    /\ N = 0 /\ f0 # Defaults.f0

\* -------------------------------------------------------------------- C8
\* C8: an init with positive dimensions leaves a fresh Ready state of those
\* dimensions: A and A2 all dead, the scratch buffers zero, F uniformly the
\* current f0, generation 0, and exactly one frame posted, with generation 0
\* and 0 cells alive.
C8_InitFresh ==
    msg = "init" /\ W >= 1 /\ H >= 1 =>
        /\ initialized /\ ~thrown /\ N = W * H
        /\ A = ZeroBytes(N) /\ A2 = ZeroBytes(N) /\ Nsum = ZeroBytes(N)
        /\ F = [i \in 0 .. N - 1 |-> f0] /\ Fsum = ZeroFloats(N)
        /\ gen = 0
        /\ post.type = "frame" /\ post.source = "init"
        /\ post.width = W /\ post.height = H
        /\ post.generation = 0 /\ post.alive = 0

\* an init answered under an f0 that was set beforehand
C8_Witness ==
    /\ msg = "init" /\ initialized /\ W = 1 /\ H = 2
    /\ f0 # Defaults.f0 /\ F = [i \in 0 .. 1 |-> f0]
    /\ post # NoFrame

\* -------------------------------------------------------------------- C9
\* C9: an init whose width or height is not positive fails with an error
\* and posts no frame.
C9_BadInitFails ==
    msg = "init" /\ (W <= 0 \/ H <= 0) => thrown /\ post = NoFrame

\* ------------------------------------------------------------------- C10
\* C10: an init that fails leaves W, H, N, the buffers, the generation and
\* the initialized flag as they were.
C10_FailedInitAtomic ==
    [][msg' = "init" /\ thrown' => UNCHANGED grid]_vars

\* ------------------------------------------------------------------- C11
length(a) == Cardinality(DOMAIN a)

\* C11: in every reachable state N = W * H, and A, A2, F, Fsum and Nsum have
\* exactly N entries each.
C11_BuffersSized ==
    /\ N = W * H
    /\ length(A) = N /\ length(A2) = N /\ length(F) = N
    /\ length(Fsum) = N /\ length(Nsum) = N

\* ------------------------------------------------------------------- C12
Inside(x, y) == x >= 0 /\ y >= 0 /\ x < W /\ y < H
EditEffect(x, y, v) ==
    /\ A' = [i \in DOMAIN A |-> IF Inside(x, y) /\ i = y * W + x THEN v ELSE A[i]]
    /\ DOMAIN A' = DOMAIN A
    /\ UNCHANGED <<initialized, W, H, N, F, A2, gen, Fsum, Nsum, params>>
    /\ post' = NoFrame /\ thrown' = FALSE

\* C12: setCell(x, y, v) with (x, y) inside the grid sets the entry y * W + x
\* of A to v and changes nothing else, posts nothing and raises nothing; with
\* (x, y) outside the grid it changes nothing and raises nothing.
C12_SetCellFrame ==
    [][\A xy \in CellInputs(W, H), v \in {0, 1} :
           OnSetCell(xy[1], xy[2], v) => EditEffect(xy[1], xy[2], v)]_vars

\* the cells (1, 0) and (2, 1) of a 3 x 2 grid were set, and no other
C12_Witness ==
    /\ msg = "setCell" /\ W = 3 /\ H = 2
    /\ A = Pattern(6, {1, 5}) /\ gen = 0 /\ post = NoFrame

\* ------------------------------------------------------------------- C13
\* C13: a render message changes no simulation state: A, F, the generation,
\* the dimensions and all parameters are as before (and so are the other
\* buffers and the initialized flag).
C13_RenderPure == [][msg' = "render" => UNCHANGED <<grid, params>>]_vars

\* a render of a stepped grid with a live cell on it
C13_Witness ==
    /\ msg = "render" /\ post # NoFrame /\ post.source = "render"
    /\ gen >= 1 /\ post.generation = gen /\ post.alive >= 1

\* ------------------------------------------------------------------- C14
\* C14: two consecutive render messages, with no other message between
\* them, post frames with identical pixel bytes.
C14_RenderIdempotent ==
    [][msg = "render" /\ post # NoFrame /\ msg' = "render" =>
           post' # NoFrame /\ post'.buffer = post.buffer]_vars

\* C14 as stated: a render posts the pixel bytes of every earlier render
\* that no step separates from it
C14_NoStepBetween ==
    [][msg' = "render" /\ post' # NoFrame =>
           \A k \in 1 .. Len(shown) : shown[k] = post'.buffer]_vars

\* two renders in a row of a stepped grid with a live and a dead cell
C14_Witness ==
    /\ msg = "render" /\ post # NoFrame /\ gen >= 1
    /\ Len(shown) = 2 /\ shown[1] = shown[2] /\ shown[2] = post.buffer
    /\ \E i, j \in DOMAIN A : A[i] = 1 /\ A[j] = 0

\* ------------------------------------------------------------------- C15
\* C15: the generation counts the steps since the last init, clear or reset:
\* a step handled in the Ready state adds exactly 1, an init that succeeds
\* and every clear and reset leave 0, and render, setCell and setParams leave
\* the generation as it was.
C15_Generation ==
    [][/\ Stepping => gen' = gen + 1
       /\ msg' = "init" /\ ~thrown' => gen' = 0
       /\ msg' \in {"clear", "reset"} => gen' = 0
       /\ msg' \in {"render", "setCell", "setParams"} => gen' = gen]_vars

\* a step of a Ready kernel that brought the generation from 0 to 1
C15_Witness ==
    /\ msg = "step" /\ initialized /\ N >= 1 /\ gen = 1
    /\ post # NoFrame /\ post.generation = 1

\* ------------------------------------------------------------------- C16
\* C16: in every reachable state, before init as well, 0 <= w0 <= 1 and
\* w1 = 1 - w0, whatever w0 values the setParams messages carried.
C16_WeightsClamped ==
    RLe(Zero, w0) /\ RLe(w0, One) /\ w1 = RSub(One, w0)

\* a w0 above 1 was sent before init and stored as 1
C16_Witness ==
    /\ msg = "setParams" /\ ~initialized
    /\ w0 = One /\ w1 = Zero

\* ------------------------------------------------------------------- C17
\* the value a provided field is stored as
Stored(k, v) == IF k = "w0" THEN RMax(Zero, RMin(One, v)) ELSE v
Merged(p) ==
    /\ \A k \in DOMAIN Defaults :
          Params'[k] = IF k \in DOMAIN p THEN Stored(k, p[k]) ELSE Params[k]
    /\ w1' = IF "w0" \in DOMAIN p THEN RSub(One, w0') ELSE w1
    /\ UNCHANGED grid
    /\ post' = NoFrame /\ thrown' = FALSE

\* C17: setParams with a partial parameter set overwrites exactly the fields
\* provided (and w1 when w0 is provided), leaves every other parameter at its
\* prior value, changes no grid state and posts no frame.
C17_PartialMerge ==
    [][\A p \in TuneInputs : OnSetParams(p) => Merged(p)]_vars

\* two partial sets were merged on a Ready grid whose fertility is still the
\* f0 of its init
C17_Witness ==
    /\ msg = "setParams" /\ initialized /\ N >= 1
    /\ f0 = Q(-1, 2) /\ tau = One /\ sigma = Defaults.sigma
    /\ \A i \in DOMAIN F : F[i] = Defaults.f0

\* ------------------------------------------------------------------- C18
\* C18: the step handled right after a setParams message decides liveness and
\* fertility with the parameter values that message left behind, and the
\* setParams message itself changes nothing that an earlier step produced.
C18_HotSwap ==
    [][/\ msg = "setParams" /\ Stepping =>
             \A i \in 0 .. N - 1 :
                 /\ (A'[i] = 1) <=> RuleAlive(i)
                 /\ F'[i] = Relaxed(i)
       /\ msg' = "setParams" => UNCHANGED grid]_vars

\* a step right after setParams({tau: 1}): a dead cell with 3 live neighbours
\* stayed dead, which the default tau would have let be born
C18_Witness ==
    /\ msg = "step" /\ gen = 1 /\ tau = One
    /\ \E i \in DOMAIN A : A2[i] = 0 /\ Nsum[i] = 3 /\ A[i] = 0

\* ------------------------------------------------------------------- C19
\* C19: in every step and for every cell, the birth test and the survival
\* test are never both true, and a cell that is alive after the step was
\* dead with the birth test true or alive with the survival test true.
Born(i) ==
    birth(Params, A[i], NbrAlive(A, W, H, i),
          effective(Params, F[i], RMul(NbrFert(F, W, H, i), Eighth)))
Survived(i) ==
    survive(Params, A[i], NbrAlive(A, W, H, i),
            effective(Params, F[i], RMul(NbrFert(F, W, H, i), Eighth)))
C19_Exclusive ==
    [][Stepping =>
          \A i \in 0 .. N - 1 :
              /\ ~(Born(i) /\ Survived(i))
              /\ A'[i] = 1 => \/ A[i] = 0 /\ Born(i) /\ ~Survived(i)
                              \/ A[i] = 1 /\ Survived(i) /\ ~Born(i)]_vars

\* a step in which a dead cell with three live neighbours was born and a
\* live cell with two live neighbours survived
C19_Witness ==
    /\ msg = "step" /\ gen = 1
    /\ \E i, j \in DOMAIN A :
           /\ A2[i] = 0 /\ Nsum[i] = 3 /\ A[i] = 1
           /\ A2[j] = 1 /\ Nsum[j] = 2 /\ A[j] = 1

\* ------------------------------------------------------------------- C20
\* a kernel with the same W, H, A, F as the current one, whose next-liveness
\* buffer, neighbour scratch buffers and generation counter hold other values
Scribbled ==
    [Grid EXCEPT !.A2 = [i \in DOMAIN A2 |-> 1 - A2[i]],
                 !.Nsum = [i \in DOMAIN Nsum |-> Nsum[i] + 1],
                 !.Fsum = [i \in DOMAIN Fsum |-> RAdd(Fsum[i], One)],
                 !.gen = gen + 5]

\* C20: the liveness and fertility a step produces are those that step
\* produces from the same A, F and parameters in a kernel whose next-liveness
\* buffer, scratch buffers and generation counter hold other values.
C20_Deterministic ==
    [][Stepping =>
          /\ \A i \in 0 .. N - 1 :
                 /\ Scribbled.A2[i] # A2[i] /\ Scribbled.Nsum[i] # Nsum[i]
                 /\ Scribbled.Fsum[i] # Fsum[i]
          /\ Scribbled.gen # gen
          /\ \E r \in {step(Scribbled, Params)} :
                 /\ r.g.A = A' /\ r.g.F = F'
                 /\ r.g.Nsum = Nsum' /\ r.g.Fsum = Fsum']_vars

\* a step after which one cell is alive and another dead, with different
\* fertilities, and a cell died whose scratch count was not zero
C20_Witness ==
    /\ msg = "step" /\ gen = 1
    /\ \E i, j \in DOMAIN A :
          /\ A[i] = 1 /\ A[j] = 0 /\ F[i] # F[j]
          /\ A2[j] = 1 /\ Nsum[j] > 0

\* ------------------------------------------------------------------- C21
\* C21: a step from a grid with every cell dead leaves every cell dead and
\* reports 0 alive cells; if the fertility is uniformly f > 0 and
\* 0 < delta < 1, every fertility after the step is f * (1 - delta), which is
\* smaller than f; this holds for each step in a row.
C21_FallowDecay ==
    [][Stepping /\ AllDead /\ N >= 1 =>
          /\ \A i \in DOMAIN A' : A'[i] = 0
          /\ post' # NoFrame /\ post'.source = "step" /\ post'.alive = 0
          /\ Uniform(F[0]) /\ RLt(Zero, F[0]) /\ RLt(Zero, delta)
                 /\ RLt(delta, One) =>
                 \A i \in DOMAIN F' :
                     /\ F'[i] = RMul(F[0], RSub(One, delta))
                     /\ RLt(F'[i], F[i])]_vars

\* three steps in a row on a fallow grid of at least four cells with
\* delta = 1/4: the fertility is f0 * (3/4)^3 everywhere
C21_Witness ==
    /\ msg = "step" /\ gen = 3 /\ N >= 4 /\ AllDead /\ delta = Q(1, 4)
    /\ Uniform(RMul(f0, Q(27, 64))) /\ post # NoFrame /\ post.alive = 0

\* ------------------------------------------------------------------- C22
\* cell i is the one live cell of the grid
OnlyLive(i) == A[i] = 1 /\ \A j \in DOMAIN A : j # i => A[j] = 0
\* max(0, ((F + alpha) + d * (favg - (F + alpha))) * (1 - delta)) for cell i,
\* with F and favg from the current state
Deposited(i) ==
    LET G == RAdd(F[i], alpha)
        favg == RMul(NbrFert(F, W, H, i), Q(1, 8))
    IN  RMax(Zero, RMul(RAdd(G, RMul(d, RSub(favg, G))), RSub(One, delta)))
Dies(i) ==
    /\ A'[i] = 0
    /\ post' # NoFrame /\ post'.alive = 0
    /\ F'[i] = Deposited(i)

\* C22: when one cell is alive, every other cell is dead and the live cell
\* has no live neighbour (as on every grid with W >= 2 and H >= 2), one step
\* kills the cell, reports 0 alive cells, and leaves the cell the fertility
\* max(0, ((F + alpha) + d * (favg - (F + alpha))) * (1 - delta)).
C22_SoilDeposit ==
    [][Stepping =>
          \A i \in 0 .. N - 1 :
              OnlyLive(i) /\ NbrAlive(A, W, H, i) = 0 => Dies(i)]_vars

\* C22 as stated, on every grid: a single live cell dies in one step
C22_AnyGrid ==
    [][Stepping => \A i \in 0 .. N - 1 : OnlyLive(i) => Dies(i)]_vars

\* the step after a single live cell on a grid at least 3 wide and 3 high:
\* nothing is alive, and the cell that died holds more fertility than any other
C22_Witness ==
    /\ msg = "step" /\ gen = 1 /\ W >= 3 /\ H >= 3
    /\ AllDead /\ post # NoFrame /\ post.alive = 0
    /\ \E i \in DOMAIN A :
           /\ A2[i] = 1 /\ Nsum[i] = 0
           /\ \A j \in DOMAIN A : j # i => A2[j] = 0 /\ RLt(F[j], F[i])

\* ------------------------------------------------------------------- C23
\* C23: a frame the kernel has posted describes the state the command left
\* behind: its source is the command, its alive count is the number of cells
\* with A[i] = 1, its generation is gen, its width and height are W and H, and
\* its pixels are those of the current A and F.
C23_FrameConsistent ==
    post # NoFrame =>
        /\ post.source = msg
        /\ post.alive = Cardinality({i \in DOMAIN A : A[i] = 1})
        /\ post.generation = gen
        /\ post.width = W /\ post.height = H
        /\ DOMAIN post.buffer = 0 .. W * H - 1
        /\ \A i \in DOMAIN post.buffer : post.buffer[i] = Pixel(A[i], F[i])

\* a step frame after a cell has died: the frame counts no live cell, is
\* tagged with generation 1 and shows the soil of the cell that died
C23_Witness ==
    /\ msg = "step" /\ post # NoFrame /\ gen = 1
    /\ post.source = "step" /\ post.generation = 1 /\ post.alive = 0
    /\ \E i \in DOMAIN A :
           /\ A2[i] = 1 /\ A[i] = 0
           /\ post.buffer[i] = Pixel(0, F[i])
           /\ post.buffer[i] # Pixel(1, F[i])

\* ------------------------------------------------------------------- C24
\* the number of bytes of a pixel buffer
Bytes(buffer) == 4 * Cardinality(DOMAIN buffer)
Live(i) == A[i] = 1

\* C24: the buffer of every frame posted has 4 * W * H bytes, four per cell,
\* the fourth of which is 255; the pixel of a live cell is the live colour
\* whatever its fertility; the pixels of two dead cells of equal fertility are
\* equal, within a frame and from one frame to the next.
C24_PixelLayout ==
    [][post' # NoFrame =>
          /\ Bytes(post'.buffer) = 4 * W' * H'
          /\ \A i \in DOMAIN post'.buffer :
                 /\ Len(post'.buffer[i]) = 4
                 /\ post'.buffer[i][4] = 255
                 /\ Live(i)' =>
                        post'.buffer[i] = <<LIVE_COLOR[1], LIVE_COLOR[2],
                                            LIVE_COLOR[3], 255>>
                 /\ \A j \in DOMAIN post'.buffer :
                        ~Live(i)' /\ ~Live(j)' /\ F'[i] = F'[j] =>
                            post'.buffer[i] = post'.buffer[j]
                 /\ \A j \in (IF post = NoFrame THEN {} ELSE DOMAIN post.buffer) :
                        ~Live(i)' /\ ~Live(j) /\ F'[i] = F[j] =>
                            post'.buffer[i] = post.buffer[j]]_vars

\* a rendered frame of two cells of equal, negative fertility, one alive and
\* one dead: the live one has the live colour, the dead one is black
C24_Witness ==
    /\ msg = "render" /\ post # NoFrame /\ N = 2
    /\ Bytes(post.buffer) = 8
    /\ A[0] = 1 /\ A[1] = 0 /\ F[0] = F[1] /\ F[0] = Q(-1, 2)
    /\ post.buffer[0] = <<230, 255, 230, 255>>
    /\ post.buffer[1] = <<0, 0, 0, 255>>

\* ------------------------------------------------------------------- C25
\* C25: in every reachable state every entry of the two liveness buffers is
\* 0 or 1, and every neighbour count step has written is one of 0 .. 8.
C25_LivenessBinary ==
    /\ \A i \in DOMAIN A : A[i] = 0 \/ A[i] = 1
    /\ \A i \in DOMAIN A2 : A2[i] = 0 \/ A2[i] = 1
    /\ \A i \in DOMAIN Nsum : 0 <= Nsum[i] /\ Nsum[i] <= 8

\* a step on a 1 x 1 grid whose cell was set alive: all 8 wrapped neighbours
\* are the cell itself, the count is 8 and the cell has died
C25_Witness ==
    /\ msg = "step" /\ gen = 1 /\ N = 1
    /\ Nsum[0] = 8 /\ A2[0] = 1 /\ A[0] = 0

StepsPending ==
    Cardinality({k \in DOMAIN inbox : inbox[k].type = "step"})
    + Cardinality({k \in DOMAIN outbox : outbox[k].source = "step"})

\* C27: at most one tick is in flight: whatever the order of timer ticks, Step
\* clicks, render requests, cell edits, resets and frame deliveries, at most
\* one step message of the host is unanswered by a frame with source "step".
C27_OneTickInFlight == StepsPending <= 1

\* a step is unanswered while the timer runs and a frame of another command
\* is on its way to the host
C27_Witness ==
    /\ StepsPending = 1 /\ stepInFlight /\ playing /\ intervals # {}
    /\ \E k \in DOMAIN outbox : outbox[k].source # "step"

\* ------------------------------------------------------------------- C28
\* the parameters the host sent before init: its form, w0 clamped
Sent == sendParams.params

\* C28: the parameters sent with setParams before init are applied by the
\* worker: once the init the host posted after them is handled, every
\* parameter has the value sent (w1 = 1 - w0) and the fertility field is
\* filled with the f0 sent, and the frame that init posts, the first the host
\* receives, shows every cell as a dead cell of that fertility.
C28_ParamsBeforeInit ==
    /\ msg = "init" =>
           /\ \A k \in DOMAIN Sent : Params[k] = Sent[k]
           /\ w1 = RSub(One, Sent.w0)
           /\ F = [i \in 0 .. HostW * HostH - 1 |-> form.f0]
    /\ \A k \in DOMAIN outbox :
           outbox[k].source = "init" =>
               outbox[k].buffer = [i \in 0 .. HostW * HostH - 1 |-> Pixel(0, form.f0)]

\* the init frame is on its way to a host whose form is not the worker's
\* fallback defaults, and its pixels are not those of the fallback f0
C28_Witness ==
    /\ msg = "init" /\ outbox # <<>> /\ Head(outbox).source = "init"
    /\ form.f0 # Defaults.f0 /\ form.w0 # Defaults.w0
    /\ F[0] = form.f0 /\ w0 = One
    /\ Head(outbox).buffer[0] # Pixel(0, Defaults.f0)

\* ------------------------------------------------------------------- C29
\* C29: the active and the next liveness buffer are two buffers that step
\* swaps: after a step the next buffer is the previous generation and every
\* entry of the active buffer is the value step has just computed for that
\* cell, none a value the next buffer held before; a setCell after a step
\* writes the active buffer and leaves the next buffer alone, and the render
\* and the step that follow read what it wrote.
C29_SwapNotCopy ==
    [][/\ Stepping =>
             /\ A2' = A
             /\ \A i \in 0 .. N - 1 :
                    A'[i] = IF Born(i) \/ Survived(i) THEN 1 ELSE 0
       /\ \A xy \in (0 .. W - 1) \X (0 .. H - 1), v \in {0, 1} :
              msg = "step" /\ OnSetCell(xy[1], xy[2], v) =>
                  /\ A'[idx(W, xy[1], xy[2])] = v
                  /\ \A j \in DOMAIN A : j # idx(W, xy[1], xy[2]) => A'[j] = A[j]
                  /\ A2' = A2
       /\ msg = "setCell" /\ msg' = "render" =>
              /\ post' # NoFrame
              /\ post'.buffer = [i \in 0 .. N - 1 |-> Pixel(A[i], F[i])]]_vars

\* the second step on a grid of one cell, whose cell no step leaves alive:
\* the cell was alive when the step began, set after the first step, and the
\* step has counted it
C29_Witness ==
    /\ msg = "step" /\ gen = 2 /\ N = 1
    /\ A2[0] = 1 /\ Nsum[0] = 8 /\ A[0] = 0

\* ------------------------------------------------------------------- C30
\* C30: while Ready, the worker posts exactly one frame, tagged with the
\* command, for each init, step, render, clear or reset message it processes
\* (an init that is rejected with an error aside), and posts no frame for
\* setCell or setParams.
C30_OneFramePerCommand ==
    [][initialized /\ ~(msg' = "init" /\ thrown') =>
          /\ msg' \in {"init", "step", "render", "clear", "reset"} =>
                 post' # NoFrame /\ post'.source = msg'
          /\ msg' \in {"setCell", "setParams"} => post' = NoFrame]_vars

\* ------------------------------------------------------------------- C31
\* the message at the head of inbox can be handled: the step cap of Tick never
\* holds the worker back, because no step is requested at generation StepGen
WorkerReady ==
    inbox # <<>> /\ Head(inbox).type = "step" /\ initialized => gen < StepGen

\* C31: no tick is lost: while stepInFlight is set exactly one step message or
\* frame with source "step" is on its way, and stepInFlight always returns to
\* false, given that the worker handles the messages and the host the frames
\* that are waiting.
C31_NoLostTick ==
    /\ [](stepInFlight => StepsPending = 1)
    /\ stepInFlight ~> ~stepInFlight

\* the host has received the frame of a step that the timer requested and
\* may request the next
C31_Witness ==
    /\ ~stepInFlight /\ generation = 1 /\ playing /\ intervals # {}
    /\ inbox = <<>> /\ outbox = <<>> /\ msg = "step"

\* ------------------------------------------------------------------- C32
\* the last message the host has posted is the reset of resetAll(): no step
\* and no cell edit has been requested since
ResetLatest ==
    IF inbox # <<>> THEN inbox[Len(inbox)].type = "reset" ELSE msg = "reset"

\* C32: after resetAll() the generation and the alive count the host displays
\* are 0 and stay 0 until the next step or cell edit is requested, whatever
\* frames were outstanding when the reset was requested.
C32_ResetShowsZero ==
    ResetLatest => generation = 0 /\ aliveCountValue = 0

\* ------------------------------------------------------------------- C33
\* C33: in the host an interval timer exists exactly when playing is true:
\* stepTimer is non-null if and only if playing, the active intervals are
\* stepTimer alone while playing and none otherwise, and stepOnce() while
\* playing posts no step and leaves stepInFlight alone.
C33_TimerIffPlaying ==
    /\ [](/\ stepTimer # NoTimer <=> playing
          /\ Cardinality(intervals) <= 1
          /\ intervals = IF playing THEN {stepTimer} ELSE {})
    /\ [][stepOnce /\ playing => UNCHANGED <<inbox, posted, stepInFlight>>]_vars

\* playing, with the one interval of stepTimer, after a step that the timer
\* requested has been answered
C33_Witness ==
    /\ playing /\ stepTimer # NoTimer /\ intervals = {stepTimer}
    /\ posted > 3 /\ generation = 1 /\ ~stepInFlight

\* ------------------------------------------------------------------- C34
\* C34: every setCell message the host sends is immediately followed by a
\* render message; once the worker has handled every message and the host
\* every frame, the last frame delivered shows every cell edit the host has
\* posted since its last step or reset, a cell set to 1 in the live colour
\* and a cell set to 0 as soil, and the alive count displayed is the number
\* of live cells, the cells set to 1 among them.
C34_GestureShown ==
    /\ \A k \in DOMAIN inbox :
           inbox[k].type = "setCell" =>
               k < Len(inbox) /\ inbox[k + 1].type = "render"
    /\ inbox = <<>> /\ outbox = <<>> /\ edits # NoEdits =>
           /\ \A i \in DOMAIN edits : lastFrame[i] = Pixel(edits[i], F[i])
           /\ aliveCountValue = Cardinality({i \in DOMAIN A : A[i] = 1})
           /\ aliveCountValue >= Cardinality({i \in DOMAIN edits : edits[i] = 1})

\* a gesture over two cells has been handled and its last frame delivered:
\* both cells are drawn alive and counted
C34_Witness ==
    /\ inbox = <<>> /\ outbox = <<>>
    /\ DOMAIN edits = {0, 1} /\ edits[0] = 1 /\ edits[1] = 1
    /\ aliveCountValue = 2
    /\ lastFrame[0] = Pixel(1, F[0]) /\ lastFrame[1] = Pixel(1, F[1])
    /\ Pixel(1, F[0]) # Pixel(0, F[0])
====
